---- MODULE Spec2Model ----
\* Model of the document-summarizer server (Express handlers for /api/summarize
\* and /api/chat, the in-memory vectorStores map, the hourly cleanup timer) and of
\* the parts of the React client that drive it.
EXTENDS Integers, Sequences, FiniteSets, TLC

\* ---------------------------------------------------------------- bounds
MaxSumm == 2        \* summarize requests handled in one run
MaxChat == 1        \* chat requests in flight at one time
MaxTicks == 2       \* clock advances in one run
MaxRand == 0        \* Math.round(Math.random() * 1E9) is in 0..MaxRand
MaxMsgLen == 1      \* characters in a chat message
MaxTurns == 3       \* exchanges in the chatHistory of a chat request
MaxMsgs == 6        \* messages in the client's conversation when it sends one more
MaxReqs == 3        \* requests of the client that meet the rate limiter in one run

\* ---------------------------------------------------------------- constants
TTL == 3600000                      \* Date.now() - 3600000 in cleanupOldFiles
SweepInterval == 3600000            \* setInterval(cleanupOldFiles, 3600000)
FileSizeLimit == 10 * 1024 * 1024   \* multer limits.fileSize
PdfMime == "application/pdf"

SummSlots == 1..MaxSumm
ChatSlots == 1..MaxChat

\* The clock is Date.now() in milliseconds; it advances by one of these amounts.
ClockSteps == {1, TTL}

VARIABLES
  now,           \* Date.now()
  nextSweep,     \* time at which the setInterval timer is next due
  vectorStores,  \* Map fileId -> {store, timestamp, filename}
  disk,          \* names of the files in the uploads directory
  summ,          \* the summarize requests, by slot
  chat,          \* the chat requests in flight, by slot
  ui,            \* the React state of the client UI
  env,           \* process.env.NODE_ENV
  srv,           \* the server process: whether OPENAI_API_KEY is set, how far the
                 \* start-up has come, whether the cleanup timer is set, and the
                 \* rate limiter's window for the client
  conv,          \* the client UI's conversation: messages, loading, banners and
                 \* the handleSendMessage call in flight
  hist,          \* history: per key ever stored, whether a sweep found it lapsed
                 \* since it was last stored, the time of the last access to its
                 \* session (-1: evicted) and, for a session the run starts
                 \* with, the sweeps it has been through since (-1: not counted)
  last           \* history: the latest step taken and the response it sent

vars == <<now, nextSweep, vectorStores, disk, summ, chat, ui, env, srv, conv, hist, last>>

\* ---------------------------------------------------------------- values
NoKey == [t |-> -1, r |-> 0, n |-> <<>>]       \* a missing fileId / filename
NoEntry == [store |-> 0, timestamp |-> -1, filename |-> NoKey]   \* Map.get -> undefined
BogusKey == [t |-> 0, r |-> MaxRand + 1, n |-> <<"x">>]  \* a fileId multer never generated

Chars == {" ", "a"}
AlnumChars == {"a", "b", "c"}
Strings(n) == UNION {[1..k -> Chars] : k \in 0..n}

\* String.prototype.trim on a sequence of characters.
RECURSIVE TrimLeft(_)
TrimLeft(s) == IF s # <<>> /\ Head(s) = " " THEN TrimLeft(Tail(s)) ELSE s
RECURSIVE TrimRight(_)
TrimRight(s) ==
  IF s # <<>> /\ s[Len(s)] = " " THEN TrimRight(SubSeq(s, 1, Len(s) - 1)) ELSE s
Trim(s) == TrimRight(TrimLeft(s))

\* file.originalname.replace(/[^a-zA-Z0-9]/g, '_')
Sanitize(name) == [i \in 1..Len(name) |-> IF name[i] \in AlnumChars THEN name[i] ELSE "_"]

OriginalNames == {<<"a", ".">>, <<"a", "_">>}

\* storage.filename: `file-${Date.now()}-${random}-${sanitizedFilename}`
GenerateFilename(t, rnd, originalname) == [t |-> t, r |-> rnd, n |-> Sanitize(originalname)]

\* ---------------------------------------------------------------- the Map
EmptyMap == [x \in {} |-> NoEntry]
MapHas(m, k) == k \in DOMAIN m
MapGet(m, k) == IF k \in DOMAIN m THEN m[k] ELSE NoEntry
MapSetOnly(m, k, v) == [x \in {k} |-> v]
MapSetKeepFirst(m, k, v) ==
  IF k \in DOMAIN m THEN m ELSE [x \in DOMAIN m \cup {k} |-> IF x = k THEN v ELSE m[x]]
MapSet(m, k, v) == [x \in DOMAIN m \cup {k} |-> IF x = k THEN v ELSE m[x]]
MapDelete(m, ks) == [x \in DOMAIN m \ ks |-> m[x]]

\* ---------------------------------------------------------------- errors
\* The values of process.env.NODE_ENV: 'production', or anything else.
Envs == {"production", "development"}

OnlyPdfMessage == "Only PDF files are allowed"
NoContentMessage == "No content found in the PDF"
GenerateFailedMessage == "Failed to generate response"
GenericMessage == "An unexpected error occurred"
FallbackMessage == "Something went wrong!"

\* The messages of the errors the PDF loader, the embeddings, the similarity
\* search and the model call can throw: some text, or none.
UpstreamMessages == {"", "upstream failed"}

\* new Error(message); onlyPdf is err.message.includes('Only PDF files are allowed')
Err(message) ==
  [multer |-> FALSE, code |-> "", onlyPdf |-> message = OnlyPdfMessage, message |-> message]

\* multer's MulterError: its message is the text multer has for the code
MulterError(code) ==
  [multer |-> TRUE, code |-> code, onlyPdf |-> FALSE,
   message |-> IF code = "LIMIT_FILE_SIZE" THEN "File too large" ELSE "Unexpected field"]
PlainError(onlyPdf) == Err(IF onlyPdf THEN OnlyPdfMessage ELSE "")

\* errorHandler: the status of the response for an error passed to next()
ErrorStatus(err) ==
  IF err.multer
  THEN (IF err.code = "LIMIT_FILE_SIZE" THEN 413 ELSE 400)
  ELSE IF err.onlyPdf THEN 415 ELSE 500

ErrorStatuses == {400, 413, 415, 500}

\* errorHandler: the JSON body of the response, given NODE_ENV
ErrorBodyAlwaysRaw(err, nodeEnv) == [error |-> err.message]
ErrorBody(err, nodeEnv) ==
  IF err.multer
  THEN (IF err.code = "LIMIT_FILE_SIZE"
        THEN [error |-> "File size too large. Maximum size is 10MB."]
        ELSE [error |-> "File upload error: " \o err.message])
  ELSE IF err.onlyPdf THEN [error |-> OnlyPdfMessage]
  ELSE [error |-> IF nodeEnv = "production" THEN GenericMessage
                  ELSE IF err.message # "" THEN err.message ELSE FallbackMessage]

NoBody == [none |-> TRUE]    \* no response was sent

\* ---------------------------------------------------------------- initial state
\* A summarize request: where its handler is, its key, whether the UI sent it
\* and awaits the response, the status of the response and (history) whether
\* the UI's selected file has changed since the UI sent it.
IdleSumm == [pc |-> "idle", key |-> NoKey, ui |-> FALSE, status |-> 0, stale |-> FALSE]
DoneSumm == [pc |-> "done", key |-> NoKey, ui |-> FALSE, status |-> 0, stale |-> FALSE]
IdleChat ==
  [pc |-> "idle", fileId |-> NoKey, store |-> 0, question |-> <<>>, history |-> <<>>,
   ui |-> FALSE, status |-> 0, answer |-> <<>>]

\* The UI's state with no file selected: file, fileId, whether summary is a
\* non-empty string, hasProcessedFile, and the mode, which starts as 'summarize'.
NoDocument ==
  [file |-> FALSE, fileId |-> NoKey, summary |-> FALSE, hasProcessedFile |-> FALSE,
   mode |-> "summarize"]

\* No handleSendMessage call of the UI is in flight.
NoSend == [active |-> FALSE, stored |-> <<>>, aborted |-> FALSE]

NoUpload == [kind |-> "", mime |-> "", size |-> 0, name |-> <<>>]

\* A step: the operation, the request slot and key it concerns, the status of the
\* response it sent (0: none) and its JSON body, the message of the error that
\* errorHandler was given, the multipart body of a summarize request, the
\* trimmed message of a chat request, the messages of the prompt handed to the
\* model, and the filenames for which the sweep's unlink threw (console.error).
Step(op, slot, key, status) ==
  [op |-> op, slot |-> slot, key |-> key, status |-> status, body |-> NoBody,
   raw |-> "", upload |-> NoUpload, msg |-> <<>>, prompt |-> <<>>, log |-> {}]

\* A step in which errorHandler answered for err.
ErrorStep(op, slot, key, err, nodeEnv) ==
  [Step(op, slot, key, ErrorStatus(err)) EXCEPT
     !.body = ErrorBody(err, nodeEnv), !.raw = err.message]

\* ---------------------------------------------------------------- the process
\* const limiter = rateLimit({ windowMs: 15 * 60 * 1000, max: 100 })
RateLimitMax == 100
RateWindow == 15 * 60 * 1000

\* The server process once the module has been evaluated with OPENAI_API_KEY
\* set: it listens and the cleanup timer is set. For the client, the limiter
\* holds the number of its requests in the current window (hits) and the time
\* at which the window ends (reset). History only: how many of these requests
\* went on to the summarize and chat handlers (passed), and the number of
\* requests that met the limiter in this run (reqs).
Running ==
  [apiKey |-> TRUE, phase |-> "listening", timer |-> TRUE, error |-> "",
   hits |-> 0, passed |-> 0, reset |-> RateWindow, reqs |-> 0]

Init ==
  /\ now = 0
  /\ nextSweep = SweepInterval
  /\ vectorStores = EmptyMap
  /\ disk = {}
  /\ summ = [s \in SummSlots |-> IdleSumm]
  /\ chat = [c \in ChatSlots |-> IdleChat]
  /\ ui = NoDocument
  /\ env \in Envs
  /\ srv = Running
  /\ conv = [messages |-> <<>>, loading |-> FALSE, send |-> NoSend]
  /\ hist = EmptyMap
  /\ last = Step("Init", 0, NoKey, 0)

\* ---------------------------------------------------------------- the clock
\* The clock never goes back. MaxTicks bounds the number of advances.
Ticks(t) == (t \div TTL) + (t % TTL)

Tick ==
  /\ Ticks(now) < MaxTicks
  /\ \E d \in ClockSteps : now' = now + d
  /\ last' = Step("Tick", 0, NoKey, 0)
  /\ UNCHANGED <<nextSweep, vectorStores, disk, summ, chat, ui, env, srv, conv, hist>>

\* ---------------------------------------------------------------- the sweep
\* cleanupOldFiles: `timestamp < oneHourAgo` with oneHourAgo = Date.now() - 3600000
IsExpiredInclusive(timestamp, t) == timestamp <= t - TTL
IsExpiredTwoHours(timestamp, t) == timestamp < t - 2 * TTL
IsExpiredFlipped(timestamp, t) == timestamp > t - TTL
IsExpired(timestamp, t) == timestamp < t - TTL

ExpiredKeys(vs, t) == {k \in DOMAIN vs : IsExpired(vs[k].timestamp, t)}

\* vectorStores.delete(fileId) for every expired entry
SweepStoreAllIfAny(vs, t) == IF ExpiredKeys(vs, t) = {} THEN vs ELSE EmptyMap
SweepStore(vs, t) == MapDelete(vs, ExpiredKeys(vs, t))

\* The files the sweep tries to unlink: those of expired entries that exist.
SweepTargets(d, vs, t) == {vs[k].filename : k \in ExpiredKeys(vs, t)} \cap d

\* fs.unlinkSync for every target; `failing` are the ones for which it throws.
SweepDiskNoUnlink(d, vs, t, failing) == d
SweepDisk(d, vs, t, failing) == d \ (SweepTargets(d, vs, t) \ failing)

\* history only: the keys whose age exceeds the TTL at time t
Lapsed(vs, t) == {k \in DOMAIN vs : t - vs[k].timestamp > TTL}

\* history only: a sweep at time t took the store from vs to swept. A session it
\* removed is no longer accessed; one it left has been through one more sweep.
HistSweep(h, vs, swept, t) ==
  [k \in DOMAIN h |->
     IF k \notin DOMAIN vs THEN h[k]
     ELSE IF k \notin DOMAIN swept
       THEN [lapsed |-> h[k].lapsed \/ k \in Lapsed(vs, t), access |-> -1, sweeps |-> -1]
     ELSE [h[k] EXCEPT !.lapsed = @ \/ k \in Lapsed(vs, t),
                       !.sweeps = IF @ < 0 THEN @ ELSE @ + 1]]

\* The timer, once set, fires (never early) and is rescheduled one interval
\* later.
SweepAbortOnFailure ==
  /\ srv.timer
  /\ now >= nextSweep
  /\ \E failing \in SUBSET SweepTargets(disk, vectorStores, now) :
       /\ disk' = IF failing = {} THEN SweepDisk(disk, vectorStores, now, failing) ELSE disk
       /\ vectorStores' =
            IF failing = {} THEN SweepStore(vectorStores, now)
            ELSE MapDelete(vectorStores,
                           {k \in ExpiredKeys(vectorStores, now) :
                              vectorStores[k].filename \in failing})
       /\ last' = [Step("Sweep", 0, NoKey, 0) EXCEPT !.log = failing]
  /\ nextSweep' = now + SweepInterval
  /\ hist' = HistSweep(hist, vectorStores, vectorStores', now)
  /\ UNCHANGED <<now, summ, chat, ui, env, srv, conv>>
Sweep ==
  /\ srv.timer
  /\ now >= nextSweep
  /\ \E failing \in SUBSET SweepTargets(disk, vectorStores, now) :
       /\ disk' = SweepDisk(disk, vectorStores, now, failing)
       /\ last' = [Step("Sweep", 0, NoKey, 0) EXCEPT !.log = failing]
  /\ vectorStores' = SweepStore(vectorStores, now)
  /\ nextSweep' = now + SweepInterval
  /\ hist' = HistSweep(hist, vectorStores, vectorStores', now)
  /\ UNCHANGED <<now, summ, chat, ui, env, srv, conv>>

\* ---------------------------------------------------------------- /api/summarize
\* The multipart bodies a summarize request can carry.
Uploads ==
  [kind : {"none"}, mime : {PdfMime}, size : {1}, name : {<<"a", ".">>}]
  \cup [kind : {"wrongField"}, mime : {PdfMime, "text/plain"},
        size : {FileSizeLimit, FileSizeLimit + 1}, name : {<<"a", ".">>}]
  \cup [kind : {"file"}, mime : {PdfMime, "text/plain"},
        size : {FileSizeLimit, FileSizeLimit + 1}, name : OriginalNames]

\* upload.single('file'): "handler" when the route handler runs (with or without
\* req.file), otherwise the error multer passes to next().
MulterOutcomeSizeFirst(u) ==
  IF u.kind = "none" THEN [to |-> "handler", file |-> FALSE, err |-> PlainError(FALSE)]
  ELSE IF u.kind = "wrongField"
    THEN [to |-> "error", file |-> FALSE, err |-> MulterError("LIMIT_UNEXPECTED_FILE")]
  ELSE IF u.size > FileSizeLimit
    THEN [to |-> "error", file |-> TRUE, err |-> MulterError("LIMIT_FILE_SIZE")]
  ELSE IF u.mime # PdfMime
    THEN [to |-> "error", file |-> FALSE, err |-> PlainError(TRUE)]
  ELSE [to |-> "handler", file |-> TRUE, err |-> PlainError(FALSE)]
MulterOutcome(u) ==
  IF u.kind = "none" THEN [to |-> "handler", file |-> FALSE, err |-> PlainError(FALSE)]
  ELSE IF u.kind = "wrongField"
    THEN [to |-> "error", file |-> FALSE, err |-> MulterError("LIMIT_UNEXPECTED_FILE")]
  ELSE IF u.mime # PdfMime
    THEN [to |-> "error", file |-> FALSE, err |-> PlainError(TRUE)]
  ELSE IF u.size > FileSizeLimit
    THEN [to |-> "error", file |-> TRUE, err |-> MulterError("LIMIT_FILE_SIZE")]
  ELSE [to |-> "handler", file |-> TRUE, err |-> PlainError(FALSE)]

\* Slots are taken in order: slot s is the first free one.
NextSlot(reqs, s) == reqs[s].pc = "idle" /\ \A j \in 1..(s - 1) : reqs[j].pc # "idle"

\* The response is sent. A request of the UI keeps it until the UI's fetch
\* continuation has run; of any other client's request nothing remains.
Respond(r, status) ==
  IF r.ui THEN [r EXCEPT !.pc = "responded", !.status = status] ELSE DoneSumm

\* The request arrives: multer's fileFilter, diskStorage and limits, then the
\* handler up to `await loader.load()`.
Arrive(s, u, rnd, byUi) ==
  /\ srv.phase = "listening"
  /\ NextSlot(summ, s)
  /\ LET out == MulterOutcome(u)
         key == GenerateFilename(now, rnd, u.name)
         r == [IdleSumm EXCEPT !.ui = byUi]
     IN  IF out.to = "error"
         THEN \* an aborted upload: multer removes what diskStorage wrote
              /\ summ' = [summ EXCEPT ![s] = Respond(r, ErrorStatus(out.err))]
              /\ disk' = IF out.file THEN disk \ {key} ELSE disk
              /\ last' = [ErrorStep("SummarizeUpload", s, IF out.file THEN key ELSE NoKey,
                                    out.err, env) EXCEPT !.upload = u]
         ELSE IF ~out.file
         THEN \* if (!req.file) return res.status(400)
              /\ summ' = [summ EXCEPT ![s] = Respond(r, 400)]
              /\ disk' = disk
              /\ last' = [Step("SummarizeUpload", s, NoKey, 400)
                            EXCEPT !.body = [error |-> "No file uploaded"], !.upload = u]
         ELSE /\ summ' = [summ EXCEPT ![s] = [r EXCEPT !.pc = "loading", !.key = key]]
              /\ disk' = disk \cup {key}
              /\ last' = [Step("SummarizeUpload", s, key, 0) EXCEPT !.upload = u]
  /\ UNCHANGED <<now, nextSweep, vectorStores, chat, env, hist>>

\* A summarize request of some HTTP client.
SummarizeUpload(s) ==
  /\ \E u \in Uploads, rnd \in 0..MaxRand : Arrive(s, u, rnd, FALSE)
  /\ UNCHANGED <<ui, conv, srv>>

\* The errors an awaited call of a library can reject with.
UpstreamErrors == {Err(m) : m \in UpstreamMessages}

\* catch (error) { next(error) } in the summarize handler: errorHandler answers.
SummarizeFail(s, op, err) ==
  /\ summ' = [summ EXCEPT ![s] = Respond(@, ErrorStatus(err))]
  /\ last' = ErrorStep(op, s, summ[s].key, err, env)

\* `await loader.load()` settles: it throws, or returns no documents (the handler
\* throws 'No content found in the PDF'), or returns documents, which the handler
\* splits (splitDocuments does no I/O) and hands to MemoryVectorStore.fromDocuments.
SummarizeLoad(s) ==
  /\ summ[s].pc = "loading"
  /\ \/ /\ summ[s].key \in disk
        /\ summ' = [summ EXCEPT ![s].pc = "embedding"]
        /\ last' = Step("SummarizeLoad", s, summ[s].key, 0)
     \/ /\ summ[s].key \in disk
        /\ SummarizeFail(s, "SummarizeLoad", Err(NoContentMessage))
     \/ \E err \in UpstreamErrors : SummarizeFail(s, "SummarizeLoad", err)
  /\ UNCHANGED <<now, nextSweep, vectorStores, disk, chat, hist, ui, env, srv, conv>>

\* { store: vectorStore, timestamp: Date.now(), filename: fileId }
PutEntrySeconds(store, t, fileId) ==
  [store |-> store, timestamp |-> t \div 1000, filename |-> fileId]
PutEntrySharedStore(store, t, fileId) == [store |-> 1, timestamp |-> t, filename |-> fileId]
PutEntryNoFilename(store, t, fileId) ==
  [store |-> store, timestamp |-> t, filename |-> NoKey]
PutEntryNoTimestamp(store, t, fileId) ==
  [store |-> store, timestamp |-> t, filename |-> [fileId EXCEPT !.t = 0]]
PutEntry(store, t, fileId) == [store |-> store, timestamp |-> t, filename |-> fileId]

\* history only: key k has been stored at time t, and has not lapsed since
HistPut(h, k, t) ==
  [x \in DOMAIN h \cup {k} |->
     IF x = k THEN [lapsed |-> FALSE, access |-> t, sweeps |-> -1] ELSE h[x]]

\* history only: the session under key k has been accessed by a chat at time t
HistTouch(h, k, t) ==
  [x \in DOMAIN h |-> IF x = k THEN [h[x] EXCEPT !.access = t, !.sweeps = IF @ < 0 THEN @ ELSE 0]
     ELSE h[x]]

\* `await MemoryVectorStore.fromDocuments(...)` settles; on success the handler
\* stores the session under req.file.filename and starts the similarity search.
\* The vector store built by the request in slot s is identified by s.
SummarizeStore(s) ==
  /\ summ[s].pc = "embedding"
  /\ \/ /\ summ' = [summ EXCEPT ![s].pc = "searching"]
        /\ vectorStores' = MapSet(vectorStores, summ[s].key, PutEntry(s, now, summ[s].key))
        /\ hist' = HistPut(hist, summ[s].key, now)
        /\ last' = Step("SummarizeStore", s, summ[s].key, 0)
     \/ /\ \E err \in UpstreamErrors : SummarizeFail(s, "SummarizeStore", err)
        /\ UNCHANGED <<vectorStores, hist>>
  /\ UNCHANGED <<now, nextSweep, disk, chat, ui, env, srv, conv>>

\* `await vectorStore.similaritySearch(question, 3)` settles.
SummarizeSearch(s) ==
  /\ summ[s].pc = "searching"
  /\ \/ /\ summ' = [summ EXCEPT ![s].pc = "answering"]
        /\ last' = Step("SummarizeSearch", s, summ[s].key, 0)
     \/ \E err \in UpstreamErrors : SummarizeFail(s, "SummarizeSearch", err)
  /\ UNCHANGED <<now, nextSweep, vectorStores, disk, chat, hist, ui, env, srv, conv>>

\* response.text of the summary chain
SummaryTexts == {<<"s">>}

\* `await chain.call(...)` settles: res.json({summary, fileId}) or next(error).
SummarizeAnswer(s) ==
  /\ summ[s].pc = "answering"
  /\ \/ \E text \in SummaryTexts :
          /\ summ' = [summ EXCEPT ![s] = Respond(@, 200)]
          /\ last' = [Step("SummarizeAnswer", s, summ[s].key, 200)
                        EXCEPT !.body = [summary |-> text, fileId |-> summ[s].key]]
     \/ \E err \in UpstreamErrors : SummarizeFail(s, "SummarizeAnswer", err)
  /\ UNCHANGED <<now, nextSweep, vectorStores, disk, chat, hist, ui, env, srv, conv>>

\* ---------------------------------------------------------------- /api/chat
\* req.body.message: absent, or a string.
Messages == [present : BOOLEAN, text : Strings(MaxMsgLen)]

\* message?.trim(): the empty string stands for undefined as well (both falsy)
TrimmedMessage(m) == IF m.present THEN Trim(m.text) ELSE <<>>

\* The fileIds a chat request can carry: absent, one multer generated for a
\* request in flight or for a session stored at some time, or another string.
FileIds == DOMAIN hist \cup {summ[s].key : s \in SummSlots} \cup {NoKey, BogusKey}

\* The early returns of the chat handler; 0 when it goes on to the chain.
ChatStatusNoTrim(vs, m, fileId) ==
  IF ~m.present \/ m.text = <<>> THEN 400
  ELSE IF fileId = NoKey THEN 400
  ELSE IF ~MapHas(vs, fileId) THEN 404
  ELSE 0
ChatStatus(vs, m, fileId) ==
  IF TrimmedMessage(m) = <<>> THEN 400
  ELSE IF fileId = NoKey THEN 400
  ELSE IF ~MapHas(vs, fileId) THEN 404
  ELSE 0

\* { ...vectorStoreData, timestamp: Date.now() }
TouchSeconds(entry, t) == [entry EXCEPT !.timestamp = t \div 1000]
TouchNoSpread(entry, t) == [store |-> entry.store, timestamp |-> t, filename |-> NoKey]
Touch(entry, t) == [entry EXCEPT !.timestamp = t]

\* vectorStores after the synchronous part of the chat handler
ChatStoreUpsert(vs, m, fileId, t) ==
  IF ChatStatus(vs, m, fileId) = 400 THEN vs
  ELSE MapSet(vs, fileId, Touch(MapGet(vs, fileId), t))
ChatStoreTouchAll(vs, m, fileId, t) ==
  IF ChatStatus(vs, m, fileId) = 0 THEN [k \in DOMAIN vs |-> Touch(vs[k], t)] ELSE vs
ChatStore(vs, m, fileId, t) ==
  IF ChatStatus(vs, m, fileId) = 0
  THEN MapSet(vs, fileId, Touch(MapGet(vs, fileId), t))
  ELSE vs

\* req.body.chatHistory of an HTTP client: a sequence of {question, answer}.
HttpTurns ==
  {[question |-> <<"a">>, answer |-> <<"r">>], [question |-> <<"b">>, answer |-> <<"s">>]}
Histories == UNION {[1..n -> HttpTurns] : n \in 0..MaxTurns}

\* A message of the prompt: its role, its text and, for the final human message,
\* the vector store the context was retrieved from (0: no context).
Msg(role, text, context) == [role |-> role, text |-> text, context |-> context]

\* chatHistory.map(exchange => [['human', question], ['assistant', answer]]).flat()
RECURSIVE FormattedHistoryAnswerFirst(_)
FormattedHistoryAnswerFirst(h) ==
  IF h = <<>> THEN <<>>
  ELSE <<Msg("assistant", Head(h).answer, 0), Msg("human", Head(h).question, 0)>>
       \o FormattedHistoryAnswerFirst(Tail(h))
RECURSIVE FormattedHistory(_)
FormattedHistory(h) ==
  IF h = <<>> THEN <<>>
  ELSE <<Msg("human", Head(h).question, 0), Msg("assistant", Head(h).answer, 0)>>
       \o FormattedHistory(Tail(h))

\* ChatPromptTemplate.fromMessages([system, MessagesPlaceholder('chat_history'),
\* ['human', 'Context: {context}\n\nQuestion: {question}']])
PromptMessages(formattedHistory, question, context) ==
  <<Msg("system", <<>>, 0)>> \o formattedHistory \o <<Msg("human", question, context)>>

\* The body of an early return of the chat handler.
ChatEarlyBody(vs, m, fileId) ==
  IF TrimmedMessage(m) = <<>> THEN [error |-> "Message is required"]
  ELSE IF fileId = NoKey THEN [error |-> "FileId is required"]
  ELSE [error |-> "Document not found. Please upload it again."]

\* The response is sent. A request of the UI keeps it until the UI's fetch
\* continuation has run; of any other client's request nothing remains.
ChatRespond(r, status, answer) ==
  IF r.ui
  THEN [IdleChat EXCEPT !.pc = "responded", !.fileId = r.fileId, !.ui = TRUE,
                        !.status = status, !.answer = answer]
  ELSE IdleChat

\* The request arrives: validation, lookup, timestamp refresh, then the handler
\* suspends in chain.invoke on the similarity search of the store it looked up.
ChatArrive(c, m, fileId, chatHistory, byUi) ==
  /\ srv.phase = "listening"
  /\ NextSlot(chat, c)
  /\ LET st == ChatStatus(vectorStores, m, fileId)
     IN  /\ chat' = [chat EXCEPT ![c] =
               IF st = 0
               THEN [IdleChat EXCEPT !.pc = "retrieving", !.fileId = fileId,
                                     !.store = MapGet(vectorStores, fileId).store,
                                     !.question = TrimmedMessage(m),
                                     !.history = chatHistory,
                                     !.ui = byUi]
               ELSE ChatRespond([IdleChat EXCEPT !.fileId = fileId, !.ui = byUi], st, <<>>)]
         /\ vectorStores' = ChatStore(vectorStores, m, fileId, now)
         /\ last' = [Step("ChatStart", c, fileId, st) EXCEPT
                       !.msg = TrimmedMessage(m),
                       !.body = IF st = 0 THEN NoBody
                                ELSE ChatEarlyBody(vectorStores, m, fileId)]
         /\ hist' = IF st = 0 THEN HistTouch(hist, fileId, now) ELSE hist
  /\ UNCHANGED <<now, nextSweep, disk, summ, ui, env>>

\* A chat request of some HTTP client that sends no chatHistory (default []).
ChatStart(c) ==
  /\ \E m \in Messages, fileId \in FileIds : ChatArrive(c, m, fileId, <<>>, FALSE)
  /\ UNCHANGED <<conv, srv>>

\* A chat request of some HTTP client with a chatHistory (which the handler
\* does not look at when it returns early).
ChatPost(c) ==
  /\ \E m \in Messages, fileId \in FileIds :
       IF ChatStatus(vectorStores, m, fileId) = 0
       THEN \E h \in Histories : ChatArrive(c, m, fileId, h, FALSE)
       ELSE ChatArrive(c, m, fileId, <<>>, FALSE)
  /\ UNCHANGED <<conv, srv>>

\* catch (error) { throw new Error('Failed to generate response') }, then the
\* outer catch passes it to next(): errorHandler answers.
ChatFail(c, op) ==
  /\ chat' = [chat EXCEPT ![c] = ChatRespond(@, ErrorStatus(Err(GenerateFailedMessage)), <<>>)]
  /\ last' = ErrorStep(op, c, chat[c].fileId, Err(GenerateFailedMessage), env)

\* `await vectorStoreData.store.similaritySearch(...)` settles. On success the
\* prompt is formatted from the context, the history and the question and the
\* model is called; a failure is rethrown inside the chain.
ChatRetrieve(c) ==
  /\ chat[c].pc = "retrieving"
  /\ \/ /\ chat' = [chat EXCEPT ![c].pc = "generating", ![c].history = <<>>]
        /\ last' = [Step("ChatRetrieve", c, chat[c].fileId, 0) EXCEPT
                      !.prompt = PromptMessages(FormattedHistory(chat[c].history),
                                                chat[c].question, chat[c].store)]
     \/ ChatFail(c, "ChatRetrieve")
  /\ UNCHANGED <<now, nextSweep, vectorStores, disk, summ, ui, env, srv, conv, hist>>

\* What the model and StringOutputParser can return.
ModelOutputs == {<<"r", " ">>, <<" ">>}

\* res.json({ response: response.trim(), timestamp: Date.now() })
ChatBodyWithError(response, t) == [response |-> response, timestamp |-> t, error |-> ""]
ChatBody(response, t) == [response |-> Trim(response), timestamp |-> t]

\* The model call settles: res.json({response, timestamp}) or next(error) -> 500.
ChatGenerate(c) ==
  /\ chat[c].pc = "generating"
  /\ \/ \E out \in ModelOutputs :
          /\ chat' = [chat EXCEPT ![c] = ChatRespond(@, 200, Trim(out))]
          /\ last' = [Step("ChatGenerate", c, chat[c].fileId, 200) EXCEPT
                        !.body = ChatBody(out, now)]
     \/ ChatFail(c, "ChatGenerate")
  /\ UNCHANGED <<now, nextSweep, vectorStores, disk, summ, ui, env, srv, conv, hist>>

\* ---------------------------------------------------------------- the client UI
\* The cleanup of the effect on [file], run when the selected file changes: a
\* pending chat request is aborted and loading is reset.
FileChanged(cv) ==
  [cv EXCEPT !.loading = FALSE,
             !.send = IF @.active THEN [@ EXCEPT !.aborted = TRUE] ELSE @]

\* history only: the summarize requests the UI awaits were sent for a file that
\* is no longer the selected one.
MarkStale(reqs) ==
  [s \in SummSlots |-> IF reqs[s].ui THEN [reqs[s] EXCEPT !.stale = TRUE] ELSE reqs[s]]

\* handleFileUpload: a file that passes the type, size and name checks becomes
\* the selected file and resets the document state and the conversation; one
\* that fails clears the selected file and nothing else. The mode stays.
UiSelectFile ==
  /\ \E valid \in BOOLEAN :
       IF valid
       THEN /\ ui' = [NoDocument EXCEPT !.file = TRUE, !.mode = ui.mode]
            /\ conv' = [FileChanged(conv) EXCEPT !.messages = <<>>]
            /\ summ' = MarkStale(summ)
       ELSE /\ ui' = [ui EXCEPT !.file = FALSE]
            /\ conv' = IF ui.file THEN FileChanged(conv) ELSE conv
            /\ summ' = IF ui.file THEN MarkStale(summ) ELSE summ
  /\ last' = Step("UiSelectFile", 0, ui.fileId, 0)
  /\ UNCHANGED <<now, nextSweep, vectorStores, disk, chat, env, srv, hist>>

\* The Remove File button (rendered while a file is selected).
UiRemoveFile ==
  /\ ui.file
  /\ ui' = [NoDocument EXCEPT !.mode = ui.mode]
  /\ conv' = [FileChanged(conv) EXCEPT !.messages = <<>>]
  /\ summ' = MarkStale(summ)
  /\ last' = Step("UiRemoveFile", 0, ui.fileId, 0)
  /\ UNCHANGED <<now, nextSweep, vectorStores, disk, chat, env, srv, hist>>

\* handleModeChange, called by the two tabs, which are rendered while a file is
\* selected. The chat tab is disabled, and handleModeChange('chat') returns,
\* while hasProcessedFile is false. The summarize tab in chat mode only changes
\* the mode.
UiModeChange ==
  /\ ui.file
  /\ \E newMode \in {"summarize", "chat"} :
       /\ newMode # ui.mode
       /\ newMode = "chat" => ui.hasProcessedFile
       /\ ui' = [ui EXCEPT !.mode = newMode]
       /\ last' = Step("UiModeChange", 0, ui.fileId, 0)
  /\ UNCHANGED <<now, nextSweep, vectorStores, disk, summ, chat, env, srv, conv, hist>>

\* finally { setLoading(false) } of handleSummarize and handleSendMessage
SettledKeepLoading(cv) == cv
Settled(cv) == [cv EXCEPT !.loading = FALSE]

\* handleSummarize up to `await fetch('/api/summarize')`: the selected file, a
\* PDF of at most 10 MB, is posted. The summarize tab calls it in summarize mode
\* when there is no summary yet, and is disabled in that mode while loading.
UiSummarize(s) ==
  /\ ui.file
  /\ ui.mode = "summarize"
  /\ ~ui.summary
  /\ ~conv.loading
  /\ \E name \in OriginalNames, rnd \in 0..MaxRand :
       Arrive(s, [kind |-> "file", mime |-> PdfMime, size |-> FileSizeLimit, name |-> name],
              rnd, TRUE)
  /\ conv' = [conv EXCEPT !.loading = TRUE]
  /\ UNCHANGED <<ui, srv>>

\* handleSummarize after the fetch: a 200 response sets summary, fileId and
\* hasProcessedFile, an error response clears hasProcessedFile.
UiSummarizeDone(s) ==
  /\ summ[s].pc = "responded"
  /\ ui' = IF summ[s].status = 200
           THEN [ui EXCEPT !.fileId = summ[s].key, !.summary = TRUE,
                           !.hasProcessedFile = TRUE]
           ELSE [ui EXCEPT !.hasProcessedFile = FALSE]
  /\ conv' = Settled(conv)
  /\ summ' = [summ EXCEPT ![s] = DoneSumm]
  /\ last' = Step("UiSummarizeDone", s, summ[s].key, summ[s].status)
  /\ UNCHANGED <<now, nextSweep, vectorStores, disk, chat, env, srv, hist>>

\* ---------------------------------------------------------------- the client's chat
UserMsg(text) == [role |-> "user", content |-> text]
AssistantMsg(text) == [role |-> "assistant", content |-> text]

\* Array.prototype.slice(-n)
LastN(seq, n) == IF Len(seq) <= n THEN seq ELSE SubSeq(seq, Len(seq) - n + 1, Len(seq))
\* Array.prototype.slice(0, -1)
ButLast(seq) == IF seq = <<>> THEN <<>> ELSE SubSeq(seq, 1, Len(seq) - 1)

\* The reduce over an array: entries at even (0-based) positions that have a
\* successor are paired with it.
RECURSIVE PairUp(_)
PairUp(arr) ==
  IF Len(arr) < 2 THEN <<>>
  ELSE <<[question |-> arr[1].content, answer |-> arr[2].content]>>
       \o PairUp(SubSeq(arr, 3, Len(arr)))

\* chatHistory: messages.slice(-4).reduce(...)
UiChatHistoryLastSix(messages) == PairUp(LastN(messages, 6))
UiChatHistory(messages) == PairUp(LastN(messages, 4))

\* The first guard of handleSendMessage, for the text in the input.
CanSendBlank(u, currentMessage) == u.fileId # NoKey /\ u.hasProcessedFile
CanSend(u, currentMessage) ==
  Trim(currentMessage) # <<>> /\ u.fileId # NoKey /\ u.hasProcessedFile

\* handleSendMessage up to `await fetch('/api/chat')`: the guards, the
\* optimistic append and the request. The Enter key and the send button call
\* it; they are in the chat panel, which is rendered while a file is selected,
\* the mode is 'chat' and hasProcessedFile is true.
UiSendMessage(c) ==
  /\ ui.file /\ ui.mode = "chat" /\ ui.hasProcessedFile
  /\ ~conv.loading
  /\ Len(conv.messages) <= MaxMsgs
  /\ \E currentMessage \in Strings(MaxMsgLen) :
       /\ CanSend(ui, currentMessage)
       /\ ChatArrive(c, [present |-> TRUE, text |-> Trim(currentMessage)], ui.fileId,
                     UiChatHistory(conv.messages), TRUE)
       /\ conv' = [messages |-> Append(conv.messages, UserMsg(Trim(currentMessage))),
                   loading |-> TRUE,
                   send |-> [active |-> TRUE, stored |-> conv.messages, aborted |-> FALSE]]
  /\ UNCHANGED srv

\* handleSendMessage after the fetch. setMessages is the setValue of
\* useLocalStorage the handler captured when it was called: an updater passed to
\* it is applied to the storedValue of that render (send.stored), not to the
\* current messages. A 200 response with a non-empty `response` appends the
\* assistant message; anything else throws and the catch block drops the last
\* message; finally resets loading.
UiSendDone(c) ==
  /\ chat[c].pc = "responded" /\ chat[c].ui
  /\ conv.send.active /\ ~conv.send.aborted
  /\ LET ok == chat[c].status = 200 /\ chat[c].answer # <<>>
     IN  conv' = [Settled(conv) EXCEPT
                    !.messages = IF ok
                                 THEN Append(conv.send.stored, AssistantMsg(chat[c].answer))
                                 ELSE ButLast(conv.send.stored),
                    !.send = NoSend]
  /\ chat' = [chat EXCEPT ![c] = IdleChat]
  /\ last' = Step("UiSendDone", c, chat[c].fileId, chat[c].status)
  /\ UNCHANGED <<now, nextSweep, vectorStores, disk, summ, ui, env, srv, hist>>

\* The fetch of an aborted request rejects with AbortError: the messages stay,
\* finally resets loading. The server goes on with the request on its own.
UiSendAborted(c) ==
  /\ chat[c].ui
  /\ conv.send.active /\ conv.send.aborted
  /\ conv' = [Settled(conv) EXCEPT !.send = NoSend]
  /\ chat' = [chat EXCEPT ![c] = IF @.pc = "responded" THEN IdleChat
                                 ELSE [@ EXCEPT !.ui = FALSE]]
  /\ last' = Step("UiSendAborted", c, chat[c].fileId, 0)
  /\ UNCHANGED <<now, nextSweep, vectorStores, disk, summ, ui, env, srv, hist>>

\* ---------------------------------------------------------------- the server
Next ==
  \/ Tick
  \/ Sweep
  \/ \E s \in SummSlots : SummarizeUpload(s)
  \/ \E s \in SummSlots : SummarizeLoad(s)
  \/ \E s \in SummSlots : SummarizeStore(s)
  \/ \E s \in SummSlots : SummarizeSearch(s)
  \/ \E s \in SummSlots : SummarizeAnswer(s)
  \/ \E c \in ChatSlots : ChatStart(c)
  \/ \E c \in ChatSlots : ChatRetrieve(c)
  \/ \E c \in ChatSlots : ChatGenerate(c)

Spec == Init /\ [][Next]_vars

\* ---------------------------------------------------------------- server and UI
\* The clock advances by one hour.
TickHour == Tick /\ now' = now + TTL

\* The server with the UI, in summarize mode, as the only client that uploads
\* documents.
NextUi ==
  \/ TickHour
  \/ Sweep
  \/ \E s \in SummSlots : SummarizeLoad(s)
  \/ \E s \in SummSlots : SummarizeStore(s)
  \/ \E s \in SummSlots : SummarizeSearch(s)
  \/ \E s \in SummSlots : SummarizeAnswer(s)
  \/ \E c \in ChatSlots : ChatStart(c)
  \/ \E c \in ChatSlots : ChatRetrieve(c)
  \/ \E c \in ChatSlots : ChatGenerate(c)
  \/ UiSelectFile
  \/ UiRemoveFile
  \/ \E s \in SummSlots : UiSummarize(s)
  \/ \E s \in SummSlots : UiSummarizeDone(s)

\* The server runs in production.
InitUi == Init /\ env = "production"

SpecUi == InitUi /\ [][NextUi]_vars

\* ---------------------------------------------------------------- chat in full
\* The server at one instant of the clock, with the UI and other HTTP clients,
\* whose chat requests carry a chatHistory.
NextChat ==
  \/ UiSelectFile
  \/ UiRemoveFile
  \/ UiModeChange
  \/ \E s \in SummSlots : UiSummarize(s)
  \/ \E s \in SummSlots : UiSummarizeDone(s)
  \/ \E s \in SummSlots : SummarizeLoad(s)
  \/ \E s \in SummSlots : SummarizeStore(s)
  \/ \E s \in SummSlots : SummarizeSearch(s)
  \/ \E s \in SummSlots : SummarizeAnswer(s)
  \/ \E c \in ChatSlots : UiSendMessage(c)
  \/ \E c \in ChatSlots : UiSendDone(c)
  \/ \E c \in ChatSlots : UiSendAborted(c)
  \/ \E c \in ChatSlots : ChatPost(c)
  \/ \E c \in ChatSlots : ChatRetrieve(c)
  \/ \E c \in ChatSlots : ChatGenerate(c)

SpecChat == InitUi /\ [][NextChat]_vars

\* ---------------------------------------------------------------- the sweep alone
\* The server after summarize requests for documents with different names, all
\* received at time 0, have been answered: sessions for some of them are in the
\* store and files of some of them are in the uploads directory. From there the
\* clock advances, the sweep runs and chat requests arrive.
SweepNames == {<<"a">>, <<"b">>}
SweepKeys == {GenerateFilename(0, 0, n) : n \in SweepNames}

\* The stores in which the sessions under the keys K were built by different
\* summarize requests.
StoresOver(K) ==
  {[k \in K |-> PutEntry(f[k], 0, k)] :
     f \in {g \in [K -> SummSlots] : \A x, y \in K : x # y => g[x] # g[y]}}

InitSweep ==
  /\ now = 0
  /\ nextSweep = SweepInterval
  /\ \E K \in SUBSET SweepKeys :
       /\ vectorStores \in StoresOver(K)
       /\ hist = [k \in K |-> [lapsed |-> FALSE, access |-> 0, sweeps |-> 0]]
  /\ disk \in SUBSET SweepKeys
  /\ summ = [s \in SummSlots |-> DoneSumm]
  /\ chat = [c \in ChatSlots |-> IdleChat]
  /\ ui = NoDocument
  /\ env \in Envs
  /\ srv = Running
  /\ conv = [messages |-> <<>>, loading |-> FALSE, send |-> NoSend]
  /\ last = Step("Init", 0, NoKey, 0)

NextSweep ==
  \/ Tick
  \/ Sweep
  \/ \E c \in ChatSlots : ChatStart(c)
  \/ \E c \in ChatSlots : ChatRetrieve(c)
  \/ \E c \in ChatSlots : ChatGenerate(c)

SpecSweep == InitSweep /\ [][NextSweep]_vars

\* ---------------------------------------------------------------- the client alone
\* The fetch of handleSummarize rejects (a network failure), or its response
\* cannot be used (no JSON content type, a body that does not parse): the catch
\* block clears hasProcessedFile, finally resets loading. The server goes on
\* with the request on its own.
UiSummarizeFailed(s) ==
  /\ summ[s].ui /\ summ[s].pc \notin {"idle", "done"}
  /\ ui' = [ui EXCEPT !.hasProcessedFile = FALSE]
  /\ conv' = Settled(conv)
  /\ summ' = [summ EXCEPT ![s] = IF @.pc = "responded" THEN DoneSumm
                                 ELSE [@ EXCEPT !.ui = FALSE, !.stale = FALSE]]
  /\ last' = Step("UiSummarizeFailed", s, summ[s].key, 0)
  /\ UNCHANGED <<now, nextSweep, vectorStores, disk, chat, env, srv, hist>>

\* The fetch of handleSendMessage rejects with an error other than AbortError,
\* or the body of its response does not parse: the catch block drops the last
\* message, finally resets loading.
UiSendFailed(c) ==
  /\ chat[c].ui
  /\ conv.send.active /\ ~conv.send.aborted
  /\ conv' = [Settled(conv) EXCEPT !.messages = ButLast(conv.send.stored), !.send = NoSend]
  /\ chat' = [chat EXCEPT ![c] = IF @.pc = "responded" THEN IdleChat
                                 ELSE [@ EXCEPT !.ui = FALSE]]
  /\ last' = Step("UiSendFailed", c, chat[c].fileId, 0)
  /\ UNCHANGED <<now, nextSweep, vectorStores, disk, summ, ui, env, srv, hist>>

\* The UI as the only client, with requests that fail on the way.
NextClient ==
  \/ UiSelectFile
  \/ UiRemoveFile
  \/ UiModeChange
  \/ \E s \in SummSlots : UiSummarize(s)
  \/ \E s \in SummSlots : UiSummarizeDone(s)
  \/ \E s \in SummSlots : UiSummarizeFailed(s)
  \/ \E s \in SummSlots : SummarizeLoad(s)
  \/ \E s \in SummSlots : SummarizeStore(s)
  \/ \E s \in SummSlots : SummarizeSearch(s)
  \/ \E s \in SummSlots : SummarizeAnswer(s)
  \/ \E c \in ChatSlots : UiSendMessage(c)
  \/ \E c \in ChatSlots : UiSendDone(c)
  \/ \E c \in ChatSlots : UiSendAborted(c)
  \/ \E c \in ChatSlots : UiSendFailed(c)
  \/ \E c \in ChatSlots : ChatRetrieve(c)
  \/ \E c \in ChatSlots : ChatGenerate(c)

\* Every awaited call settles and every continuation runs: the steps of the
\* server's handlers and the client's steps after its fetch are taken when they
\* stay possible. What the user does, and whether a request fails on the way, is
\* left open.
FairClient ==
  /\ \A s \in SummSlots :
       /\ WF_vars(SummarizeLoad(s)) /\ WF_vars(SummarizeStore(s))
       /\ WF_vars(SummarizeSearch(s)) /\ WF_vars(SummarizeAnswer(s))
       /\ WF_vars(UiSummarizeDone(s))
  /\ \A c \in ChatSlots :
       /\ WF_vars(ChatRetrieve(c)) /\ WF_vars(ChatGenerate(c))
       /\ WF_vars(UiSendDone(c)) /\ WF_vars(UiSendAborted(c))

SpecClient == InitUi /\ [][NextClient]_vars /\ FairClient

\* ---------------------------------------------------------------- start-up
\* The evaluation of the server module: it throws before anything else when
\* OPENAI_API_KEY is not set; otherwise it goes on to setInterval and app.listen.
KeyRequired == "OPENAI_API_KEY is required"
StartupOutcomeNoCheck(apiKey) == [phase |-> "listening", timer |-> TRUE, error |-> ""]
StartupOutcome(apiKey) ==
  IF apiKey THEN [phase |-> "listening", timer |-> TRUE, error |-> ""]
  ELSE [phase |-> "failed", timer |-> FALSE, error |-> KeyRequired]

Startup ==
  /\ srv.phase = "starting"
  /\ LET out == StartupOutcome(srv.apiKey)
     IN  /\ srv' = [srv EXCEPT !.phase = out.phase, !.timer = out.timer,
                               !.error = out.error, !.reset = now + RateWindow]
         /\ nextSweep' = IF out.timer THEN now + SweepInterval ELSE nextSweep
         /\ last' = [Step("Startup", 0, NoKey, 0) EXCEPT !.raw = out.error]
  /\ UNCHANGED <<now, vectorStores, disk, summ, chat, ui, env, conv, hist>>

\* The process has been launched, in production, with or without the key, and
\* the module has not been evaluated yet: no timer is set.
InitBoot ==
  /\ now = 0
  /\ nextSweep = 0
  /\ vectorStores = EmptyMap
  /\ disk = {}
  /\ summ = [s \in SummSlots |-> IdleSumm]
  /\ chat = [c \in ChatSlots |-> IdleChat]
  /\ ui = NoDocument
  /\ env = "production"
  /\ \E k \in BOOLEAN :
       srv = [Running EXCEPT !.apiKey = k, !.phase = "starting", !.timer = FALSE]
  /\ conv = [messages |-> <<>>, loading |-> FALSE, send |-> NoSend]
  /\ hist = EmptyMap
  /\ last = Step("Init", 0, NoKey, 0)

NextBoot ==
  \/ Startup
  \/ Tick
  \/ Sweep
  \/ \E s \in SummSlots : SummarizeUpload(s)
  \/ \E s \in SummSlots : SummarizeLoad(s)
  \/ \E s \in SummSlots : SummarizeStore(s)
  \/ \E s \in SummSlots : SummarizeSearch(s)
  \/ \E s \in SummSlots : SummarizeAnswer(s)
  \/ \E c \in ChatSlots : ChatStart(c)
  \/ \E c \in ChatSlots : ChatRetrieve(c)
  \/ \E c \in ChatSlots : ChatGenerate(c)

SpecBoot == InitBoot /\ [][NextBoot]_vars

\* ---------------------------------------------------------------- the rate limiter
\* app.use(limiter) comes before express.static and both routes: every request
\* of the client is counted, and it goes on only while the window's count,
\* this request included, is within max.
LimiterPassesOneMore(hits) == hits <= RateLimitMax
LimiterPasses(hits) == hits < RateLimitMax

\* The limiter has counted one more request; toHandler: the request went on to
\* the summarize or the chat handler.
Counted(p, toHandler) ==
  [p EXCEPT !.hits = @ + 1, !.reqs = @ + 1,
            !.passed = IF toHandler THEN @ + 1 ELSE @]

\* A summarize request that the limiter lets through.
LimitedSummarize(s) ==
  /\ srv.reqs < MaxReqs
  /\ LimiterPasses(srv.hits)
  /\ \E u \in Uploads, rnd \in 0..MaxRand : Arrive(s, u, rnd, FALSE)
  /\ srv' = Counted(srv, TRUE)
  /\ UNCHANGED <<ui, conv>>

\* A chat request that the limiter lets through.
LimitedChat(c) ==
  /\ srv.reqs < MaxReqs
  /\ LimiterPasses(srv.hits)
  /\ \E m \in Messages, fileId \in FileIds : ChatArrive(c, m, fileId, <<>>, FALSE)
  /\ srv' = Counted(srv, TRUE)
  /\ UNCHANGED conv

\* A request for any other path that the limiter lets through: express.static
\* serves a file of dist, or no route matches.
LimitedOther ==
  /\ srv.reqs < MaxReqs
  /\ srv.phase = "listening"
  /\ LimiterPasses(srv.hits)
  /\ srv' = Counted(srv, FALSE)
  /\ \E st \in {200, 404} : last' = Step("Other", 0, NoKey, st)
  /\ UNCHANGED <<now, nextSweep, vectorStores, disk, summ, chat, ui, env, conv, hist>>

\* A request for any path that the limiter answers itself, with 429.
Throttled ==
  /\ srv.reqs < MaxReqs
  /\ srv.phase = "listening"
  /\ ~LimiterPasses(srv.hits)
  /\ srv' = Counted(srv, FALSE)
  /\ last' = Step("Throttled", 0, NoKey, 429)
  /\ UNCHANGED <<now, nextSweep, vectorStores, disk, summ, chat, ui, env, conv, hist>>

\* The window has ended (never early): the count starts again.
LimiterReset ==
  /\ now >= srv.reset
  /\ srv' = [srv EXCEPT !.hits = 0, !.passed = 0, !.reset = now + RateWindow]
  /\ last' = Step("LimiterReset", 0, NoKey, 0)
  /\ UNCHANGED <<now, nextSweep, vectorStores, disk, summ, chat, ui, env, conv, hist>>

\* The server in production when the client has made all but one of the
\* requests of its window, each for one of the two endpoints.
InitLimit ==
  /\ now = 0
  /\ nextSweep = SweepInterval
  /\ vectorStores = EmptyMap
  /\ disk = {}
  /\ summ = [s \in SummSlots |-> IdleSumm]
  /\ chat = [c \in ChatSlots |-> IdleChat]
  /\ ui = NoDocument
  /\ env = "production"
  /\ srv = [Running EXCEPT !.hits = RateLimitMax - 1, !.passed = RateLimitMax - 1]
  /\ conv = [messages |-> <<>>, loading |-> FALSE, send |-> NoSend]
  /\ hist = EmptyMap
  /\ last = Step("Init", 0, NoKey, 0)

NextLimit ==
  \/ Tick
  \/ LimiterReset
  \/ Throttled
  \/ LimitedOther
  \/ \E s \in SummSlots : LimitedSummarize(s)
  \/ \E s \in SummSlots : SummarizeLoad(s)
  \/ \E s \in SummSlots : SummarizeStore(s)
  \/ \E s \in SummSlots : SummarizeSearch(s)
  \/ \E s \in SummSlots : SummarizeAnswer(s)
  \/ \E c \in ChatSlots : LimitedChat(c)
  \/ \E c \in ChatSlots : ChatRetrieve(c)
  \/ \E c \in ChatSlots : ChatGenerate(c)

SpecLimit == InitLimit /\ [][NextLimit]_vars

\* ================================================================ properties
\* A chat request arrived in this step, in slot c.
ChatStarted(c) == last'.op = "ChatStart" /\ last'.slot = c

\* A chat request with a non-blank message and fileId k arrived in this step.
ChatFor(c, k) == ChatStarted(c) /\ last'.key = k /\ last'.msg # <<>>

SummarizeOps ==
  {"SummarizeUpload", "SummarizeLoad", "SummarizeStore", "SummarizeSearch", "SummarizeAnswer"}
ChatOps == {"ChatStart", "ChatRetrieve", "ChatGenerate"}

AnyMessage == [present |-> TRUE, text |-> <<"a">>]

\* C1: a chat for key k that arrives right after a summarize request stored a
\* session under k (nothing in between, so no sweep) is not answered 404 or 400,
\* retrieves from the vector store that put stored, and finds and leaves the
\* session with a timestamp >= the time of the put.
C1_PutThenChat ==
  [][\A c \in ChatSlots :
       (last.op = "SummarizeStore" /\ last.status = 0 /\ ChatFor(c, last.key))
       => /\ last'.status = 0
          /\ chat'[c].pc = "retrieving"
          /\ chat'[c].store = last.slot
          /\ MapGet(vectorStores, last.key).timestamp >= now
          /\ MapGet(vectorStores', last.key).timestamp >= now]_vars

C1_Witness ==
  /\ last.op = "ChatStart" /\ last.status = 0
  /\ now > 0
  /\ \E s \in SummSlots :
       /\ summ[s].pc = "searching" /\ summ[s].key = last.key
       /\ chat[last.slot].store = s
       /\ MapGet(vectorStores, last.key) = [store |-> s, timestamp |-> now, filename |-> last.key]

C3_SweepKeepsFresh ==
  [][last'.op = "Sweep"
     => \A k \in DOMAIN vectorStores :
          now - vectorStores[k].timestamp <= TTL
          => /\ MapHas(vectorStores', k)
             /\ vectorStores'[k] = vectorStores[k]
             /\ vectorStores[k].filename \in disk => vectorStores[k].filename \in disk']_vars

C3_Witness ==
  /\ last.op = "Sweep"
  /\ \E k \in DOMAIN vectorStores :
       /\ now - vectorStores[k].timestamp = TTL
       /\ vectorStores[k].filename \in disk
  /\ \E k \in DOMAIN hist : hist[k].lapsed /\ ~MapHas(vectorStores, k)

C5_UnknownKey ==
  [][\A c \in ChatSlots, k \in FileIds \ (DOMAIN hist \cup {NoKey}) :
       ChatFor(c, k)
       => /\ last'.status = 404
          /\ vectorStores' = vectorStores]_vars

C5_Witness ==
  /\ last.op = "ChatStart" /\ last.status = 404 /\ last.msg # <<>>
  /\ last.key \notin DOMAIN hist
  /\ vectorStores # EmptyMap

\* C6 as stated: a summarize request answered with an error status has created no
\* session: the store holds no entry made by that request.
C6_ErrorCreatesNoSession ==
  (last.op \in SummarizeOps /\ last.status \in ErrorStatuses)
  => ~(MapHas(vectorStores, last.key) /\ vectorStores[last.key].store = last.slot)

\* C7 as stated: whenever no summarize request is in flight, the files in the
\* uploads directory are exactly the files of the live sessions.
C7_FilesMatchSessions ==
  (\A s \in SummSlots : summ[s].pc \in {"idle", "done", "responded"})
  => disk = {vectorStores[k].filename : k \in DOMAIN vectorStores}

\* C8: the timestamp of a session never decreases from one state to the next
\* while the session stays live.
C8_TimestampMonotone ==
  [][\A k \in DOMAIN vectorStores \cap DOMAIN vectorStores' :
       vectorStores'[k].timestamp >= vectorStores[k].timestamp]_vars

C8_Witness ==
  /\ last.op = "ChatStart" /\ last.status = 0
  /\ \E s \in SummSlots :
       /\ MapGet(vectorStores, last.key).store = s
       /\ summ[s].pc = "done"
       /\ vectorStores[last.key].timestamp > last.key.t
       /\ vectorStores[last.key].timestamp >= TTL

\* C9: the set of live keys shrinks only in a sweep step: no summarize or chat
\* step and no UI action (Remove File, selecting a file) removes a key.
C9_OnlySweepEvicts ==
  [][~(DOMAIN vectorStores \subseteq DOMAIN vectorStores') => last'.op = "Sweep"]_vars

C9_Witness ==
  /\ last.op = "UiRemoveFile"
  /\ MapHas(vectorStores, last.key)
  /\ ui.fileId = NoKey
  /\ Cardinality(DOMAIN vectorStores) = 2

\* C10: a chat request changes nothing in the store but the timestamp of the
\* session it addresses: keys, vector stores, filenames and the other timestamps
\* stay; the timestamp is refreshed when the request arrives, before retrieval,
\* and the later steps of the request, failing or not, leave the store alone.
C10_ChatFrame ==
  [][last'.op \in ChatOps
     => /\ DOMAIN vectorStores' = DOMAIN vectorStores
        /\ \A k \in DOMAIN vectorStores :
             /\ vectorStores'[k].store = vectorStores[k].store
             /\ vectorStores'[k].filename = vectorStores[k].filename
             /\ k # last'.key => vectorStores'[k].timestamp = vectorStores[k].timestamp
        /\ (last'.op = "ChatStart" /\ last'.status = 0)
             => vectorStores'[last'.key].timestamp = now
        /\ last'.op # "ChatStart" => vectorStores' = vectorStores]_vars

C10_Witness ==
  /\ last.op \in {"ChatRetrieve", "ChatGenerate"} /\ last.status = 500
  /\ MapHas(vectorStores, last.key)
  /\ vectorStores[last.key].timestamp = now
  /\ now > last.key.t
  /\ Cardinality(DOMAIN vectorStores) = 2

\* The prompt has just been handed to the model for the request in last.slot.
PromptSent == last.op = "ChatRetrieve" /\ last.status = 0

\* The messages of the prompt that come from the chatHistory.
HistoryMessages(prompt) == SubSeq(prompt, 2, Len(prompt) - 1)

\* C11 as stated: whatever chatHistory a chat request carries, at most 4 history
\* messages (2 turns) are in the prompt handed to the model.
C11_Original == PromptSent => Len(HistoryMessages(last.prompt)) <= 4

\* C11 amended: for a chat request sent by the client UI, at most 4 history
\* messages (the last 2 turns of its conversation) are in the prompt handed to the
\* model; the cap is the client's, the server forwards what it is given.
C11_UiHistoryCapped ==
  (PromptSent /\ chat[last.slot].ui) => Len(HistoryMessages(last.prompt)) <= 4

C11_Witness ==
  /\ PromptSent /\ chat[last.slot].ui
  /\ Len(conv.send.stored) = 6
  /\ Len(HistoryMessages(last.prompt)) = 4

Uploaded(u) == last.op = "SummarizeUpload" /\ last.upload = u

\* A summarize request is answered once: the step that answers it ends it. After
\* the upload was accepted the answer is 500, or 200 with summary and fileId
\* from the last step only.
SummarizeAnsweredOnce ==
  /\ last.op \in SummarizeOps
       => (last.status # 0) = (summ[last.slot].pc \in {"done", "responded"})
  /\ last.op \in SummarizeOps \ {"SummarizeUpload"} => last.status \in {0, 200, 500}
  /\ (last.op \in SummarizeOps /\ last.status = 200)
       => /\ last.op = "SummarizeAnswer"
          /\ DOMAIN last.body = {"summary", "fileId"}
          /\ last.body.fileId = last.key
  /\ last.op \in {"SummarizeLoad", "SummarizeStore", "SummarizeSearch"} => last.status \in {0, 500}
  /\ last.op = "SummarizeAnswer" => last.status \in {200, 500}

C15_AnswerOrError ==
  (last.op \in ChatOps /\ last.status # 0)
  => /\ last.status = 200
          => /\ DOMAIN last.body = {"response", "timestamp"}
             /\ last.body.response \in {Trim(o) : o \in ModelOutputs}
             /\ last.body.timestamp = now
     /\ last.status # 200 => DOMAIN last.body = {"error"}
     /\ last.op \in {"ChatRetrieve", "ChatGenerate"} => last.status \in {200, 500}
     /\ ~({"response", "error"} \subseteq DOMAIN last.body)

C15_Witness ==
  /\ last.op = "ChatRetrieve" /\ last.status = 500
  /\ DOMAIN last.body = {"error"}
  /\ MapHas(vectorStores, last.key)

\* C16 as stated: the body of a 500 response is the fixed generic message in
\* production and the raw message of the error in any other environment.
C16_Original ==
  (last.op \in SummarizeOps \cup ChatOps /\ last.status = 500)
  => last.body = [error |-> IF env = "production" THEN GenericMessage ELSE last.raw]

\* C16 amended: the body of a 500 response is the fixed generic message in
\* production, whatever the error was; in any other environment it is the raw
\* message of the error, or 'Something went wrong!' when that message is empty.
C16_ErrorBodyByEnv ==
  (last.op \in SummarizeOps \cup ChatOps /\ last.status = 500)
  => last.body = [error |-> IF env = "production" THEN GenericMessage
                            ELSE IF last.raw # "" THEN last.raw ELSE FallbackMessage]

C16_Witness ==
  /\ last.op \in SummarizeOps /\ last.status = 500
  /\ env = "production"
  /\ last.raw \notin {"", GenericMessage}
  /\ last.body = [error |-> GenericMessage]

\* C17 as stated: when the chat request of the client is answered with an error,
\* the client removes the user message it appended for that request and no
\* other, so that the conversation is what it was before the send.
C17_RollbackExact ==
  [][\A c \in ChatSlots :
       (last'.op = "UiSendDone" /\ last'.slot = c /\ chat[c].status # 200)
       => /\ conv.messages = Append(conv.send.stored, conv.messages[Len(conv.messages)])
          /\ conv'.messages = ButLast(conv.messages)
          /\ conv'.messages = conv.send.stored]_vars

\* C18: in one sweep every session older than one hour is removed from the
\* store, the ones whose file deletion threw included, and the file of every
\* such session is deleted unless its own deletion threw: a deletion that throws
\* (it is logged) stops neither the removal of the other sessions nor the
\* deletion of their files.
C18_SweepGoesOn ==
  [][last'.op = "Sweep"
     => /\ last'.log \subseteq disk
        /\ \A k \in Lapsed(vectorStores, now) :
             /\ ~MapHas(vectorStores', k)
             /\ vectorStores[k].filename \notin last'.log
                  => vectorStores[k].filename \notin disk']_vars

C18_Witness ==
  /\ last.op = "Sweep"
  /\ Cardinality(last.log) = 1
  /\ last.log = disk
  /\ vectorStores = EmptyMap
  /\ \A k \in SweepKeys : k \in DOMAIN hist /\ hist[k].lapsed

\* Every entry of the store vs has its vector store, its timestamp and its
\* filename set.
EntriesComplete(vs, t) ==
  \A k \in DOMAIN vs :
    /\ vs[k].store \in SummSlots
    /\ vs[k].timestamp \in 0..t
    /\ vs[k].filename # NoKey

\* C19: whatever the interleaving of summarize requests, chat requests and the
\* sweep timer, every entry in the store has its vector store, timestamp and
\* filename set; a chat's lookup and refresh are one step (the entry it writes is
\* the entry it read, with the new timestamp, and it retrieves from that vector
\* store); a sweep's scan and delete are one step (it removes exactly the entries
\* older than one hour, leaves the others as they were, and no entry older than
\* one hour is left when it ends).
C19_AtomicSteps ==
  [][/\ EntriesComplete(vectorStores', now')
     /\ \A c \in ChatSlots :
          (ChatStarted(c) /\ last'.status = 0)
          => /\ MapHas(vectorStores, last'.key)
             /\ vectorStores' = [vectorStores EXCEPT ![last'.key].timestamp = now]
             /\ chat'[c].store = vectorStores[last'.key].store
     /\ last'.op = "Sweep"
          => /\ DOMAIN vectorStores' = DOMAIN vectorStores \ Lapsed(vectorStores, now)
             /\ \A k \in DOMAIN vectorStores' : vectorStores'[k] = vectorStores[k]
             /\ Lapsed(vectorStores', now') = {}]_vars

C19_Witness ==
  /\ last.op = "Sweep"
  /\ \E c \in ChatSlots :
       /\ chat[c].pc = "retrieving"
       /\ ~MapHas(vectorStores, chat[c].fileId)
  /\ \E s \in SummSlots : summ[s].pc = "embedding"

\* C20 as stated: the sweep never deletes a file that an ingestion is still
\* reading: a file that a summarize request is loading is still in the uploads
\* directory after a sweep.
C20_SweepSparesLoading ==
  [][last'.op = "Sweep"
     => \A s \in SummSlots :
          (summ[s].pc = "loading" /\ summ[s].key \in disk) => summ[s].key \in disk']_vars

\* C21: a sweep removes a session exactly when more than one hour has passed
\* since the last access to it (its put, or the latest chat that found it),
\* whatever the other sessions in the store and however late the sweep runs: a
\* session whose accesses are at most one hour apart goes through every sweep
\* with its entry unchanged, also a sweep that removes an older one; and no step
\* other than a sweep removes a session.
C21_RecencyExtendsLife ==
  [][/\ last'.op = "Sweep"
          => \A k \in DOMAIN vectorStores :
               /\ MapHas(vectorStores', k) = (now - hist[k].access <= TTL)
               /\ MapHas(vectorStores', k) => vectorStores'[k] = vectorStores[k]
     /\ last'.op # "Sweep" => DOMAIN vectorStores \subseteq DOMAIN vectorStores']_vars

C21_Witness ==
  /\ last.op = "Sweep"
  /\ \E k \in DOMAIN vectorStores, j \in DOMAIN hist :
       /\ now - k.t > TTL
       /\ hist[k].access > 0
       /\ now - hist[k].access <= TTL
       /\ j.t = k.t
       /\ hist[j].lapsed /\ ~MapHas(vectorStores, j)

\* C22: the store maps each key to one session, and no two live sessions hold
\* the same vector store: the vector store a summarize request puts is held by no
\* entry before the put and by the entry of that request's key alone after it.
C22_OneSessionPerKey ==
  [][/\ \A k1, k2 \in DOMAIN vectorStores' :
          k1 # k2 => vectorStores'[k1].store # vectorStores'[k2].store
     /\ (last'.op = "SummarizeStore" /\ last'.status = 0)
          => /\ \A k \in DOMAIN vectorStores : vectorStores[k].store # last'.slot
             /\ {k \in DOMAIN vectorStores' : vectorStores'[k].store = last'.slot}
                  = {last'.key}]_vars

C22_Witness ==
  /\ last.op = "SummarizeStore" /\ last.status = 0
  /\ Cardinality(DOMAIN vectorStores) = 2
  /\ \E k \in DOMAIN vectorStores : vectorStores[k].timestamp > k.t /\ k # last.key

Requests(keys) ==
  [op : {"summarize"}, key : keys, store : SummSlots]
  \cup [op : {"chat"}, key : keys, store : {0}]

\* The store after request rq has gone through its handler's synchronous part at
\* time t, and the status that part decides (0: the chat goes on to the chain).
ReqStore(vs, rq, t) ==
  IF rq.op = "summarize" THEN MapSet(vs, rq.key, PutEntry(rq.store, t, rq.key))
  ELSE ChatStore(vs, AnyMessage, rq.key, t)
ReqStatus(vs, rq) ==
  IF rq.op = "summarize" THEN 200 ELSE ChatStatus(vs, AnyMessage, rq.key)

\* The vector store and the filename of every session.
Sessions(vs) == [k \in DOMAIN vs |-> [store |-> vs[k].store, filename |-> vs[k].filename]]

Independent(vs, t) ==
  \A r1, r2 \in Requests(FileIds \ {NoKey}) :
    (r1.key # r2.key /\ (r1.store # r2.store \/ r1.op = "chat"))
    => /\ Sessions(ReqStore(ReqStore(vs, r1, t), r2, t + 1))
            = Sessions(ReqStore(ReqStore(vs, r2, t), r1, t + 1))
       /\ ReqStatus(ReqStore(vs, r2, t), r1) = ReqStatus(vs, r1)
       /\ MapGet(ReqStore(vs, r2, t), r1.key) = MapGet(vs, r1.key)

UiSummarizesInFlight ==
  {s \in SummSlots :
     summ[s].ui /\ summ[s].pc \in {"loading", "embedding", "searching", "answering"}}
UiChatsInFlight ==
  {c \in ChatSlots :
     chat[c].ui /\ ~conv.send.aborted /\ chat[c].pc \in {"retrieving", "generating"}}

\* C25 as stated: at no time does the client have more than one summarize or chat
\* request in flight.
C25_OneRequestInFlight ==
  Cardinality(UiSummarizesInFlight) + Cardinality(UiChatsInFlight) <= 1

\* C30 as stated: whenever hasProcessedFile is true a file is selected and the
\* UI holds a summary and a fileId, and the response to a summarize request sent
\* for a file that is no longer the selected one (another was selected, or the
\* file was removed) changes none of fileId, summary and hasProcessedFile.
C30_FileIdProvenance ==
  [][/\ ui'.hasProcessedFile => (ui'.file /\ ui'.summary /\ ui'.fileId # NoKey)
     /\ \A s \in SummSlots :
          (last'.op = "UiSummarizeDone" /\ last'.slot = s /\ summ[s].stale)
          => /\ ui'.fileId = ui.fileId
             /\ ui'.summary = ui.summary
             /\ ui'.hasProcessedFile = ui.hasProcessedFile]_vars

\* The time at which the sweep last ran (when it has run).
PreviousSweep == nextSweep - SweepInterval

\* C28 as stated: a session that has been through one sweep since its last access
\* is removed by the next sweep, the second after that access.
C28_Original ==
  [][last'.op = "Sweep"
     => \A k \in DOMAIN vectorStores :
          hist[k].sweeps >= 1 => ~MapHas(vectorStores', k)]_vars

\* C28 amended: a session that has been through a sweep which ran at a later
\* time (in milliseconds) than its last access is removed by the next sweep; a
\* session is left by the second sweep after its last access only when the first
\* ran in the millisecond of that access and the second exactly one hour later.
C28_SecondLaterSweepEvicts ==
  [][last'.op = "Sweep"
     => \A k \in DOMAIN vectorStores :
          hist[k].sweeps >= 1
          => /\ PreviousSweep > hist[k].access => ~MapHas(vectorStores', k)
             /\ MapHas(vectorStores', k)
                  => (PreviousSweep = hist[k].access /\ now = hist[k].access + TTL)]_vars

C28_Witness ==
  /\ last.op = "Sweep"
  /\ now = 2 * SweepInterval
  /\ \E k \in DOMAIN vectorStores : hist[k].sweeps = 2
  /\ \E j \in DOMAIN hist :
       /\ ~MapHas(vectorStores, j)
       /\ j \notin disk

\* C29 as stated: a key that the sweep has evicted (it was stored, and is not in
\* the store) is not in the store after any later step: no chat request, in
\* flight or new, and no summarize request puts it back.
C29_EvictedNeverLiveAgain ==
  [][\A k \in DOMAIN hist :
       (hist[k].access = -1 /\ ~MapHas(vectorStores, k)) => ~MapHas(vectorStores', k)]_vars

\* The client's request that arrived in this step found the count of its
\* window used up.
ThrottledArrival == srv'.reqs = srv.reqs + 1 /\ srv.hits >= RateLimitMax

\* C26: the rate limiter runs before both endpoints. Within one window of the
\* limiter at most RateLimitMax (100) requests of the client reach the
\* summarize and chat handlers, and a request that arrives when the window's
\* count is used up is answered 429 by the limiter: it takes no slot of either
\* handler, creates no session, writes no file and refreshes no timestamp.
C26_LimiterBeforeHandlers ==
  /\ [](srv.passed <= RateLimitMax)
  /\ [][ThrottledArrival =>
          /\ last'.status = 429
          /\ vectorStores' = vectorStores
          /\ disk' = disk
          /\ summ' = summ
          /\ chat' = chat]_vars

\* A chat request for a live session was throttled after time had passed since
\* the session was stored, and the window's 100 requests had reached the
\* handlers.
C26_Witness ==
  /\ last.op = "Throttled"
  /\ srv.passed = RateLimitMax
  /\ \E k \in DOMAIN vectorStores : vectorStores[k].timestamp < now

\* C27: when OPENAI_API_KEY is absent the server fails at start-up with
\* 'OPENAI_API_KEY is required': it never listens, the cleanup timer is never
\* set, no sweep runs and no request is handled, so that no response, and no
\* per-request error, is ever sent.
C27_MissingKeyFailsAtStartup ==
  ~srv.apiKey =>
    /\ srv.phase \in {"starting", "failed"}
    /\ srv.phase = "failed" => srv.error = KeyRequired
    /\ ~srv.timer
    /\ last.op \in {"Init", "Tick", "Startup"}
    /\ last.op = "Startup" => srv.phase = "failed"
    /\ last.status = 0
    /\ \A s \in SummSlots : summ[s] = IdleSumm
    /\ \A c \in ChatSlots : chat[c] = IdleChat
    /\ vectorStores = EmptyMap

\* Without the key the start-up has failed, and the time at which the first
\* sweep would have run has passed.
C27_Witness ==
  /\ ~srv.apiKey
  /\ srv.phase = "failed"
  /\ now >= SweepInterval

\* The UI's chat request in slot c ends in this step with a 200 response that
\* carries a non-empty answer.
UiTurnSucceeds(c) ==
  /\ last'.op = "UiSendDone" /\ last'.slot = c
  /\ chat[c].pc = "responded" /\ chat[c].ui /\ conv.send.active
  /\ chat[c].status = 200 /\ chat[c].answer # <<>>

\* C31: after a successful chat turn the client's conversation is the
\* conversation before the send followed by the user's question and then the
\* assistant's answer: the turn appends these two messages and removes none.
C31_TurnAppendsPair ==
  [][\A c \in ChatSlots :
       UiTurnSucceeds(c) =>
         conv'.messages = conv.send.stored
                            \o <<UserMsg(chat[c].question), AssistantMsg(chat[c].answer)>>]_vars

\* The completed turns of a conversation, in order: each user message that is
\* directly followed by an assistant message, with that message.
RECURSIVE Turns(_)
Turns(messages) ==
  IF Len(messages) < 2 THEN <<>>
  ELSE IF messages[1].role = "user" /\ messages[2].role = "assistant"
    THEN <<[question |-> messages[1].content, answer |-> messages[2].content]>>
         \o Turns(SubSeq(messages, 3, Len(messages)))
  ELSE Turns(Tail(messages))

\* The UI's chat request for a live session arrived in this step, in slot c.
UiChatSent(c) ==
  /\ chat[c].pc = "idle" /\ chat'[c].pc = "retrieving" /\ chat'[c].ui
  /\ ~conv.send.active /\ conv'.send.active

\* C32: the chatHistory the client sends consists of the most recent completed
\* turns of its conversation, at most 2, in conversation order: each entry pairs
\* the content of a user message with the content of the assistant message that
\* directly followed it.
C32_HistoryIsRecentTurns ==
  [][\A c \in ChatSlots :
       UiChatSent(c) => chat'[c].history = LastN(Turns(conv.messages), 2)]_vars

\* The UI issued a chat request in this step.
UiChatIssued == ~conv.send.active /\ conv'.send.active

\* C33: the client sends a chat request only when it holds a processed
\* document: the request carries a non-empty trimmed message and the client's
\* fileId, which is not null, and hasProcessedFile is true. The client's fileId
\* becomes a non-null value only when a 200 summarize response arrives, and then
\* it is the fileId of that response, so that the fileId sent is one that an
\* earlier successful summarize response returned.
C33_ChatOnlyWhenReady ==
  [][/\ UiChatIssued =>
          /\ last'.op = "ChatStart"
          /\ last'.msg # <<>>
          /\ last'.key = ui.fileId
          /\ ui.fileId # NoKey
          /\ ui.hasProcessedFile
     /\ (ui'.fileId # ui.fileId /\ ui'.fileId # NoKey) =>
          \E s \in SummSlots :
            /\ summ[s].pc = "responded" /\ summ[s].ui /\ summ[s].status = 200
            /\ summ'[s].pc = "done"
            /\ ui'.fileId = summ[s].key]_vars

\* The UI has sent a chat request, not its first, with the fileId a summarize
\* response gave it.
C33_Witness ==
  /\ conv.send.active
  /\ last.op = "ChatStart" /\ last.key = ui.fileId /\ last.msg # <<>>
  /\ ui.hasProcessedFile /\ MapHas(vectorStores, ui.fileId)
  /\ Len(conv.messages) > 1

\* C35: in every state of the client, mode = 'chat' implies that
\* hasProcessedFile is true, also after a file is selected or removed in chat
\* mode.
C35_ChatModeImpliesProcessed == ui.mode = "chat" => ui.hasProcessedFile

\* C36: for every entry of the store the stored filename equals the entry's
\* key, the name multer generated for the upload; so every file a sweep deletes
\* is the file of a session that this sweep evicts, never the file of a session
\* that stays.
C36_FilenameIsKey ==
  /\ [](\A k \in DOMAIN vectorStores : vectorStores[k].filename = k)
  /\ [][last'.op = "Sweep" =>
          \A f \in disk \ disk' : MapHas(vectorStores, f) /\ ~MapHas(vectorStores', f)]_vars

\* A sweep has evicted a session and deleted its file, and has left a younger
\* session with its file.
C36_Witness ==
  /\ last.op = "Sweep"
  /\ \E k \in DOMAIN hist : ~MapHas(vectorStores, k) /\ k \notin disk /\ hist[k].access = -1
  /\ \E k \in DOMAIN vectorStores : k \in disk /\ vectorStores[k].timestamp > k.t

\* The UI awaits the response of the summarize request in slot s.
UiAwaitsSummarize(s) == summ[s].ui /\ summ[s].pc \notin {"idle", "done"}

\* A request of the UI ends in this step: its continuation after the fetch runs.
UiRequestEnds ==
  last'.op \in {"UiSummarizeDone", "UiSummarizeFailed",
                "UiSendDone", "UiSendAborted", "UiSendFailed"}
  /\ (summ' # summ \/ chat' # chat \/ conv'.send # conv.send)

\* C34: every summarize or chat request the client starts eventually ends, and
\* the step that ends it, after a success, an error response, a response that
\* cannot be read, a network failure or an abort, leaves loading false; when
\* none of the client's requests is outstanding, loading is false.
C34_LoadingEnds ==
  /\ [][UiRequestEnds => ~conv'.loading]_vars
  /\ [](((\A s \in SummSlots : ~UiAwaitsSummarize(s)) /\ ~conv.send.active)
          => ~conv.loading)
  /\ \A s \in SummSlots : UiAwaitsSummarize(s) ~> ~UiAwaitsSummarize(s)
  /\ conv.send.active ~> ~conv.send.active

\* An aborted chat request has ended while a summarize request, sent for a file
\* that is no longer the selected one, goes on.
C34_Witness ==
  /\ last.op = "UiSendAborted"
  /\ ~conv.loading
  /\ \E s \in SummSlots : UiAwaitsSummarize(s) /\ summ[s].stale
====
